---------------------------- MODULE Spec2Model ----------------------------
(***************************************************************************)
(* Model of pdf_scraper.py: the link classifier, the URL resolver, the     *)
(* page scanner and the depth-bounded traversal of FlexiblePDFScraper.     *)
(*                                                                         *)
(* Strings are sequences of one-character strings, so that the substring,  *)
(* suffix, case-folding and splitting operations of the code are computed  *)
(* and not assumed.  A URL such as http://a.rs/b is the tuple              *)
(* <<"h","t","t","p",":","/","/","a",".","r","s","/","b">>.                *)
(*                                                                         *)
(* The string operations are functions on Str: a function is applied to    *)
(* the value of its argument, which keeps nested applications cheap.       *)
(***************************************************************************)
EXTENDS Integers, Sequences, FiniteSets, TLC

\* the strings
Str == Seq(STRING)

(***************************************************************************)
(* str methods used by the code                                            *)
(***************************************************************************)
UpperLetters == <<"A","B","C","D","E","F","G","H","I","J","K","L","M","N","O","P","Q","R","S","T","U","V","W","X","Y","Z">>

LowerLetters == <<"a","b","c","d","e","f","g","h","i","j","k","l","m","n","o","p","q","r","s","t","u","v","w","x","y","z">>

Digits == <<"0","1","2","3","4","5","6","7","8","9">>

\* one character of str.lower()
LowerChar[c \in STRING] ==
  IF \E i \in 1..Len(UpperLetters) : UpperLetters[i] = c
  THEN LowerLetters[CHOOSE i \in 1..Len(UpperLetters) : UpperLetters[i] = c]
  ELSE c

\* str.lower()
Lower[s \in Str] == [i \in 1..Len(s) |-> LowerChar[s[i]]]

\* s[i:] with i 0-based, as Python slices
From[s \in Str, i \in Int] == IF i >= Len(s) THEN <<>> ELSE SubSeq(s, i + 1, Len(s))

\* s[:i] with i 0-based
Upto[s \in Str, i \in Int] ==
  IF i <= 0 THEN <<>> ELSE SubSeq(s, 1, IF i > Len(s) THEN Len(s) ELSE i)

\* s.startswith(p)
StartsWith[s \in Str, p \in Str] == Len(p) <= Len(s) /\ \A j \in 1..Len(p) : s[j] = p[j]

\* s.endswith(p)
EndsWith[s \in Str, p \in Str] ==
  Len(p) <= Len(s) /\ \A j \in 1..Len(p) : s[Len(s) - Len(p) + j] = p[j]

\* p in s
Contains[s \in Str, p \in Str] ==
  \E i \in 0..(Len(s) - Len(p)) : \A j \in 1..Len(p) : s[i + j] = p[j]

\* s.find(c) for a one-character c: the 0-based index of its first
\* occurrence, -1 when there is none
Find[s \in Str, c \in STRING] ==
  IF \E i \in 1..Len(s) : s[i] = c
  THEN (CHOOSE i \in 1..Len(s) : s[i] = c /\ \A k \in 1..(i - 1) : s[k] # c) - 1
  ELSE -1

\* the 0-based index of the first character of s, at or after start, that is
\* in the set cs; len(s) when there is none
FindAny[s \in Str, cs \in SUBSET STRING, start \in Int] ==
  IF \E i \in (start + 1)..Len(s) : s[i] \in cs
  THEN (CHOOSE i \in (start + 1)..Len(s) :
          s[i] \in cs /\ \A k \in (start + 1)..(i - 1) : s[k] \notin cs) - 1
  ELSE Len(s)

\* s before the first c, all of s when c does not occur
BeforeChar[s \in Str, c \in STRING] == IF Find[s, c] >= 0 THEN Upto[s, Find[s, c]] ELSE s

\* s after the first c, empty when c does not occur
AfterChar[s \in Str, c \in STRING] ==
  IF Find[s, c] >= 0 THEN From[s, Find[s, c] + 1] ELSE <<>>

\* s.split(c) for a one-character separator c
Split[s \in Str, c \in STRING] ==
  IF Find[s, c] < 0 THEN <<s>> ELSE <<BeforeChar[s, c]>> \o Split[AfterChar[s, c], c]

\* c.join(parts)
Join[parts \in Seq(Str), c \in STRING] ==
  IF Len(parts) = 0 THEN <<>>
  ELSE IF Len(parts) = 1 THEN parts[1]
  ELSE parts[1] \o <<c>> \o Join[Tail(parts), c]

\* s.strip(c) for a one-character c
Strip[s \in Str, c \in STRING] ==
  IF Len(s) > 0 /\ s[1] = c THEN Strip[Tail(s), c]
  ELSE IF Len(s) > 0 /\ s[Len(s)] = c THEN Strip[SubSeq(s, 1, Len(s) - 1), c]
  ELSE s

\* the whitespace of the texts of the model
Whitespace == {" "}

\* s.strip()
StripSpace[s \in Str] ==
  IF Len(s) > 0 /\ s[1] \in Whitespace THEN StripSpace[Tail(s)]
  ELSE IF Len(s) > 0 /\ s[Len(s)] \in Whitespace
       THEN StripSpace[SubSeq(s, 1, Len(s) - 1)]
  ELSE s

(***************************************************************************)
(* re.search, for the patterns the program uses: a pattern is a sequence   *)
(* of literal characters in which "." matches any character.  A pattern    *)
(* with an unbalanced "(" does not compile: re.search raises re.error.     *)
(***************************************************************************)
ReCount[p \in Str, c \in STRING] == Cardinality({i \in 1..Len(p) : p[i] = c})

\* re.compile(p) raises
ReError[p \in Str] == ReCount[p, "("] # ReCount[p, ")"]

\* one pattern element against one character, with or without re.IGNORECASE
ReCharMatch[pc \in STRING, sc \in STRING, ignorecase \in BOOLEAN] ==
  \/ pc = "."
  \/ IF ignorecase THEN LowerChar[pc] = LowerChar[sc] ELSE pc = sc

\* re.search(p, s, flags) is not None
ReSearch[p \in Str, s \in Str, ignorecase \in BOOLEAN] ==
  \E i \in 0..(Len(s) - Len(p)) :
     \A j \in 1..Len(p) : ReCharMatch[p[j], s[i + j], ignorecase]

\* the characters of the class [\\/*?:"<>|]
InvalidFilenameChars == {"\\", "/", "*", "?", ":", "\"", "<", ">", "|"}

\* re.sub(r'[\\/*?:"<>|]', '_', s)
Sanitize[s \in Str] ==
  [i \in 1..Len(s) |-> IF s[i] \in InvalidFilenameChars THEN "_" ELSE s[i]]

(***************************************************************************)
(* urllib.parse: urlparse, urlunparse and urljoin, for URLs without        *)
(* params (";") -- the scheme, netloc, path, query and fragment are        *)
(* computed as urlsplit computes them.                                     *)
(***************************************************************************)
Letters ==
  {UpperLetters[i] : i \in 1..Len(UpperLetters)}
    \cup {LowerLetters[i] : i \in 1..Len(LowerLetters)}

SchemeChars == Letters \cup {Digits[i] : i \in 1..Len(Digits)} \cup {"+", "-", "."}

\* the 0-based index of the ":" ending a scheme, -1 when url has no scheme
SchemeEnd[url \in Str] ==
  IF Find[url, ":"] > 0 /\ url[1] \in Letters
     /\ \A k \in 1..Find[url, ":"] : url[k] \in SchemeChars
  THEN Find[url, ":"] ELSE -1

\* the netloc has a "[" without "]" or a "]" without "[": urlsplit raises
\* ValueError("Invalid IPv6 URL")
InvalidNetloc[netloc \in Str] ==
  (Find[netloc, "["] >= 0) # (Find[netloc, "]"] >= 0)

\* the scheme urlsplit finds, lowercased; default when there is none
SchemeOf[url \in Str, default \in Str] ==
  IF SchemeEnd[url] >= 0 THEN Lower[Upto[url, SchemeEnd[url]]] ELSE default

\* what follows the scheme and its ":"
AfterScheme[url \in Str] ==
  IF SchemeEnd[url] >= 0 THEN From[url, SchemeEnd[url] + 1] ELSE url

\* _splitnetloc: the netloc of a remainder that starts with "//"
NetlocOf[rest \in Str] ==
  IF StartsWith[rest, <<"/","/">>]
  THEN SubSeq(rest, 3, FindAny[rest, {"/", "?", "#"}, 2])
  ELSE <<>>

\* _splitnetloc: what follows the netloc
AfterNetloc[rest \in Str] ==
  IF StartsWith[rest, <<"/","/">>] THEN From[rest, FindAny[rest, {"/", "?", "#"}, 2]] ELSE rest

\* the result of urlsplit from the scheme, the netloc and what follows it
ParseResult[scheme \in Str, netloc \in Str, tail \in Str] ==
  [scheme   |-> scheme,
   netloc   |-> netloc,
   path     |-> BeforeChar[BeforeChar[tail, "#"], "?"],
   query    |-> AfterChar[BeforeChar[tail, "#"], "?"],
   fragment |-> AfterChar[tail, "#"],
   raises   |-> InvalidNetloc[netloc]]

\* urlparse(url, scheme=default): the parts, and whether the call raises
urlparse_with[url \in Str, default \in Str] ==
  ParseResult[SchemeOf[url, default], NetlocOf[AfterScheme[url]],
              AfterNetloc[AfterScheme[url]]]

\* urlparse(url)
urlparse[url \in Str] == urlparse_with[url, <<>>]

\* what urlparse returns
Parsed == [scheme : Str, netloc : Str, path : Str, query : Str, fragment : Str,
           raises : BOOLEAN]

\* urllib.parse.uses_relative, as far as the schemes of the model go
uses_relative == {<<>>, <<"h","t","t","p">>, <<"h","t","t","p","s">>, <<"f","t","p">>, <<"f","i","l","e">>}

\* urllib.parse.uses_netloc, as far as the schemes of the model go
uses_netloc == {<<>>, <<"h","t","t","p">>, <<"h","t","t","p","s">>, <<"f","t","p">>, <<"f","i","l","e">>}

\* urlunsplit: the netloc and the path
UnparseLoc[scheme \in Str, netloc \in Str, path \in Str] ==
  IF netloc # <<>>
     \/ (scheme # <<>> /\ scheme \in uses_netloc /\ ~StartsWith[path, <<"/","/">>])
  THEN <<"/","/">> \o netloc \o (IF path # <<>> /\ path[1] # "/" THEN <<"/">> ELSE <<>>) \o path
  ELSE path

\* urlunsplit: the scheme, the query and the fragment around the rest
UnparseAround[scheme \in Str, rest \in Str, query \in Str, fragment \in Str] ==
  (IF scheme # <<>> THEN scheme \o <<":">> ELSE <<>>) \o rest
    \o (IF query # <<>> THEN <<"?">> \o query ELSE <<>>)
    \o (IF fragment # <<>> THEN <<"#">> \o fragment ELSE <<>>)

\* urlunparse((scheme, netloc, path, '', query, fragment))
urlunparse[scheme \in Str, netloc \in Str, path \in Str, query \in Str, fragment \in Str] ==
  UnparseAround[scheme, UnparseLoc[scheme, netloc, path], query, fragment]

\* filter(None, segments)
FilterEmpty[segments \in Seq(Str)] ==
  IF Len(segments) = 0 THEN <<>>
  ELSE (IF Head(segments) = <<>> THEN <<>> ELSE <<Head(segments)>>)
         \o FilterEmpty[Tail(segments)]

\* the loop of urljoin that removes "." and ".." segments
ResolveDots[segments \in Seq(Str), resolved \in Seq(Str)] ==
  IF Len(segments) = 0 THEN resolved
  ELSE IF Head(segments) = <<".",".">>
  THEN ResolveDots[Tail(segments),
                   IF Len(resolved) > 0
                   THEN SubSeq(resolved, 1, Len(resolved) - 1)
                   ELSE resolved]
  ELSE IF Head(segments) = <<".">>
  THEN ResolveDots[Tail(segments), resolved]
  ELSE ResolveDots[Tail(segments), Append(resolved, Head(segments))]

\* base_parts: the segments of the base path without a non-empty last one
BaseParts[bsplit \in Seq(Str)] ==
  IF bsplit[Len(bsplit)] # <<>> THEN SubSeq(bsplit, 1, Len(bsplit) - 1) ELSE bsplit

\* segments[1:-1] = filter(None, segments[1:-1])
FilterMiddle[raw \in Seq(Str)] ==
  IF Len(raw) < 3 THEN raw
  ELSE <<raw[1]>> \o FilterEmpty[SubSeq(raw, 2, Len(raw) - 1)] \o <<raw[Len(raw)]>>

\* the segments urljoin resolves, from the base path and a non-empty path
Segments[bpath \in Str, path \in Str] ==
  IF path[1] = "/" THEN Split[path, "/"]
  ELSE FilterMiddle[BaseParts[Split[bpath, "/"]] \o Split[path, "/"]]

\* '/'.join(resolved_path) or '/'
PathOrRoot[joined \in Str] == IF joined = <<>> THEN <<"/">> ELSE joined

\* the resolved path: a last "." or ".." segment leaves a trailing "/"
ResolvedPath[segments \in Seq(Str)] ==
  PathOrRoot[Join[IF segments[Len(segments)] \in {<<".">>, <<".",".">>}
                  THEN Append(ResolveDots[segments, <<>>], <<>>)
                  ELSE ResolveDots[segments, <<>>], "/"]]

\* urljoin once both URLs are parsed and the reference has no netloc of
\* its own
JoinRelative[b \in Parsed, u \in Parsed, netloc \in Str] ==
  IF u.path = <<>>
  THEN urlunparse[u.scheme, netloc, b.path,
                  IF u.query = <<>> THEN b.query ELSE u.query, u.fragment]
  ELSE urlunparse[u.scheme, netloc, ResolvedPath[Segments[b.path, u.path]],
                  u.query, u.fragment]

\* urljoin once both URLs are parsed
JoinParsed[b \in Parsed, u \in Parsed, url \in Str] ==
  IF u.scheme # b.scheme \/ u.scheme \notin uses_relative THEN url
  ELSE IF u.scheme \in uses_netloc /\ u.netloc # <<>>
  THEN urlunparse[u.scheme, u.netloc, u.path, u.query, u.fragment]
  ELSE JoinRelative[b, u, IF u.scheme \in uses_netloc THEN b.netloc ELSE u.netloc]

\* urllib.parse.urljoin(base, url) raises ValueError
urljoin_raises[base \in Str, url \in Str] ==
  /\ base # <<>>
  /\ url # <<>>
  /\ urlparse[base].raises \/ urlparse[url].raises

\* urllib.parse.urljoin(base, url), when it does not raise
urljoin[base \in Str, url \in Str] ==
  IF base = <<>> THEN url
  ELSE IF url = <<>> THEN base
  ELSE JoinParsed[urlparse[base], urlparse_with[url, urlparse[base].scheme], url]

\* os.path.basename(p): what follows the last "/"
basename[p \in Str] == Split[p, "/"][Len(Split[p, "/"])]

(***************************************************************************)
(* The state of a FlexiblePDFScraper, the crawl's call stack and what the  *)
(* run has done so far.                                                    *)
(***************************************************************************)
VARIABLES
  config,           \* self.config: a dict, here a function on its keys
  base_url,         \* self.base_url
  download_folder,  \* self.download_folder
  phase,            \* where main() is: "main", "loaded", "running", "done"
  stack,            \* the active calls, innermost last
  visited,          \* the visited set of scrape_with_navigation
  total,            \* total_pdfs of start_scraping
  now,              \* the last value read from time.time()
  faults,           \* failed requests and raised errors so far
  log               \* the events of the run, in order

vars == <<config, base_url, download_folder, phase, stack, visited, total, now,
          faults, log>>

\* config.get(key, default)
config_get(key, default) == IF key \in DOMAIN config THEN config[key] ELSE default

(***************************************************************************)
(* Link classifier                                                         *)
(***************************************************************************)
\* is_pdf_link, first test: url.lower().endswith('.pdf')
UrlEndsWithPdf(url) == EndsWith[Lower[url], <<".","p","d","f">>]

\* a test for 'pdf' that tells the letter cases apart
UrlContainsLowerPdf(url) == Contains[url, <<"p","d","f">>]

\* is_pdf_link, second test: 'pdf' in url.lower()
UrlContainsPdf(url) == Contains[Lower[url], <<"p","d","f">>]

\* is_pdf_link, third test on the link text
TextSuggestsPdf(text) ==
  /\ text # <<>>
  /\ Contains[Lower[text], <<"p","d","f">>] \/ EndsWith[Lower[text], <<".","p","d","f">>]

is_pdf_link(url, text) ==
  UrlEndsWithPdf(url) \/ UrlContainsPdf(url) \/ TextSuggestsPdf(text)

skip_patterns ==
  << <<"m","a","i","l","t","o",":">>, <<"t","e","l",":">>, <<"j","a","v","a","s","c","r","i","p","t",":">>, <<"#">>,
     <<"/","l","o","g","i","n">>, <<"/","l","o","g","o","u","t">>, <<"/","r","e","g","i","s","t","e","r">>, <<"/","s","e","a","r","c","h">>,
     <<"f","a","c","e","b","o","o","k",".","c","o","m">>, <<"t","w","i","t","t","e","r",".","c","o","m">>, <<"y","o","u","t","u","b","e",".","c","o","m">>, <<"i","n","s","t","a","g","r","a","m",".","c","o","m">> >>

\* a search of the skip loop that tells the letter cases apart
CaseSensitiveSearch(pattern, url) == ReSearch[pattern, url, FALSE]

\* re.search(pattern, url, re.IGNORECASE) of the skip loop
SkipSearch(pattern, url) == ReSearch[pattern, url, TRUE]

\* the loop over skip_patterns finds a match
MatchesSkipPattern(url) ==
  \E i \in 1..Len(skip_patterns) : SkipSearch(skip_patterns[i], url)

\* 'k' in self.config and self.config['k']
Configured(key) == key \in DOMAIN config /\ config[key] # <<>>

\* the follow_pattern test rejects the link
FollowPatternRejects(url, link_text) ==
  /\ Configured("follow_pattern")
  /\ ~ReSearch[config["follow_pattern"], url, TRUE]
  /\ ~ReSearch[config["follow_pattern"], link_text, TRUE]

\* the ignore_pattern test rejects the link
IgnorePatternRejects(url, link_text) ==
  /\ Configured("ignore_pattern")
  /\ \/ ReSearch[config["ignore_pattern"], url, TRUE]
     \/ ReSearch[config["ignore_pattern"], link_text, TRUE]

\* the same-domain test rejects the link
DomainRejects(link_domain, base_domain) ==
  link_domain # <<>> /\ link_domain # base_domain

\* should_follow_link(url, link_text): "True", "False", or "raise" when a
\* configured pattern does not compile (re.error) -- the tests in the order
\* of the code
should_follow_link(url, link_text) ==
  IF is_pdf_link(url, link_text) THEN "False"
  ELSE IF MatchesSkipPattern(url) THEN "False"
  ELSE IF Configured("follow_pattern") /\ ReError[config["follow_pattern"]] THEN "raise"
  ELSE IF FollowPatternRejects(url, link_text) THEN "False"
  ELSE IF Configured("ignore_pattern") /\ ReError[config["ignore_pattern"]] THEN "raise"
  ELSE IF IgnorePatternRejects(url, link_text) THEN "False"
  ELSE IF DomainRejects(urlparse[url].netloc, urlparse[base_url].netloc) THEN "False"
  ELSE "True"

\* re.sub(r'^www\.', '', domain)
StripLeadingWww[domain \in Str] ==
  IF StartsWith[domain, <<"w","w","w",".">>] THEN From[domain, 4] ELSE domain

\* the 1-based index of the last "." of domain, 0 when there is none
LastDot[domain \in Str] ==
  IF \E i \in 1..Len(domain) : domain[i] = "."
  THEN CHOOSE i \in 1..Len(domain) :
         domain[i] = "." /\ \A k \in (i + 1)..Len(domain) : domain[k] # "."
  ELSE 0

\* re.sub(r'\.[a-z]+$', '', domain): a last label of lowercase letters goes
StripSuffix[domain \in Str] ==
  IF LastDot[domain] > 0 /\ LastDot[domain] < Len(domain)
     /\ \A k \in (LastDot[domain] + 1)..Len(domain) :
          domain[k] \in {LowerLetters[i] : i \in 1..Len(LowerLetters)}
  THEN Upto[domain, LastDot[domain] - 1]
  ELSE domain

\* extract_domain(url)
extract_domain[url \in Str] == StripSuffix[StripLeadingWww[urlparse[url].netloc]]

(***************************************************************************)
(* The environment: the pages and documents the network serves.  A page    *)
(* is its sequence of <a> elements; an element without href has href <<>>. *)
(***************************************************************************)
A(href, text) == [href |-> href, text |-> text]

\* a two-page cycle a -> b -> a with one PDF on each page
CycleSite ==
  (<<"h","t","t","p",":","/","/","a",".","r","s","/","a">> :> << A(<<"r",".","p","d","f">>, <<"R","e","p","o","r","t">>), A(<<"/","b">>, <<"B">>) >>)
  @@ (<<"h","t","t","p",":","/","/","a",".","r","s","/","b">> :> << A(<<"/","a">>, <<"A">>), A(<<"s",".","p","d","f">>, <<>>) >>)

\* a tree t/ -> {x -> z -> w, y}
TreeSite ==
  (<<"h","t","t","p",":","/","/","a",".","r","s","/","t","/">> :> << A(<<"x">>, <<"X">>), A(<<"y">>, <<"Y">>) >>)
  @@ (<<"h","t","t","p",":","/","/","a",".","r","s","/","t","/","x">> :> << A(<<"x",".","p","d","f">>, <<"X",":"," ","1","/","2","?">>), A(<<"z">>, <<"Z">>) >>)
  @@ (<<"h","t","t","p",":","/","/","a",".","r","s","/","t","/","y">> :> << A(<<"y",".","p","d","f">>, <<"Y"," ","d","o","c">>) >>)
  @@ (<<"h","t","t","p",":","/","/","a",".","r","s","/","t","/","z">> :> << A(<<"w">>, <<"W">>) >>)
  @@ (<<"h","t","t","p",":","/","/","a",".","r","s","/","t","/","w">> :> << A(<<"w",".","p","d","f">>, <<"W"," ","d","o","c">>) >>)

\* links to other hosts, to excluded targets and to targets without a host
ScopeSite ==
  (<<"h","t","t","p",":","/","/","a",".","r","s","/","s">> :>
     << A(<<"h","t","t","p",":","/","/","w","w","w",".","a",".","r","s","/","p">>, <<"P">>), A(<<"h","t","t","p",":","/","/","s",".","a",".","r","s","/","f">>, <<"F">>),
        A(<<"h","t","t","p",":","/","/","F","a","c","e","b","o","o","k",".","c","o","m","/","a",".","r","s">>, <<"f","b">>), A(<<"/","L","o","g","i","n">>, <<"L","o","g"," ","i","n">>),
        A(<<>>, <<"n","o"," ","h","r","e","f">>), A(<<"#","T","o","p">>, <<"T","o","p">>), A(<<"f","i","l","e",":","/","/","/","x">>, <<"X">>),
        A(<<"/">>, <<"H","o","m","e">>) >>)
  @@ (<<"h","t","t","p",":","/","/","a",".","r","s","/">> :> << A(<<"/","P","D","F","/">>, <<>>) >>)
  @@ (<<"h","t","t","p",":","/","/","w","w","w",".","a",".","r","s","/","p">> :> << A(<<"p",".","p","d","f">>, <<"P"," ","d","o","c">>) >>)

\* a page with an href that urljoin cannot parse
BrokenSite ==
  (<<"h","t","t","p",":","/","/","a",".","r","s","/","m">> :>
     << A(<<"m",".","p","d","f">>, <<"M">>), A(<<"/","n">>, <<"N">>), A(<<"/","o">>, <<"O">>), A(<<"h","t","t","p",":","/","/","[">>, <<"b","a","d">>),
        A(<<"q",".","p","d","f">>, <<"Q">>) >>)
  @@ (<<"h","t","t","p",":","/","/","a",".","r","s","/","n">> :> << A(<<"n",".","p","d","f">>, <<"N"," ","d","o","c">>) >>)
  @@ (<<"h","t","t","p",":","/","/","a",".","r","s","/","o">> :> << A(<<"o",".","p","d","f">>, <<"O"," ","d","o","c">>) >>)

\* a page g2 that is linked from g and from g1, and a document d.pdf that is
\* linked twice from g and once from g2
GraphSite ==
  (<<"h","t","t","p",":","/","/","a",".","r","s","/","g">> :>
     << A(<<"d",".","p","d","f">>, <<"D","o","c">>), A(<<"d",".","p","d","f">>, <<"D","o","c">>), A(<<"/","g","1">>, <<"G","1">>), A(<<"/","g","2">>, <<"G","2">>) >>)
  @@ (<<"h","t","t","p",":","/","/","a",".","r","s","/","g","1">> :> << A(<<"/","g","2">>, <<"G","2">>) >>)
  @@ (<<"h","t","t","p",":","/","/","a",".","r","s","/","g","2">> :> << A(<<"/","h">>, <<"H">>), A(<<"d",".","p","d","f">>, <<"D","o","c">>) >>)
  @@ (<<"h","t","t","p",":","/","/","a",".","r","s","/","h">> :> << A(<<"h",".","p","d","f">>, <<"H"," ","d","o","c">>) >>)

Web == CycleSite @@ TreeSite @@ ScopeSite @@ BrokenSite @@ GraphSite

\* the documents the network serves besides the pages
Docs ==
  { <<"h","t","t","p",":","/","/","a",".","r","s","/","r",".","p","d","f">>, <<"h","t","t","p",":","/","/","a",".","r","s","/","s",".","p","d","f">>, <<"h","t","t","p",":","/","/","a",".","r","s","/","t","/","x",".","p","d","f">>,
    <<"h","t","t","p",":","/","/","a",".","r","s","/","t","/","y",".","p","d","f">>, <<"h","t","t","p",":","/","/","a",".","r","s","/","t","/","w",".","p","d","f">>, <<"h","t","t","p",":","/","/","a",".","r","s","/","P","D","F","/">>,
    <<"h","t","t","p",":","/","/","a",".","r","s","/","d",".","p","d","f">>, <<"h","t","t","p",":","/","/","a",".","r","s","/","h",".","p","d","f">>, <<"h","t","t","p",":","/","/","a",".","r","s","/","m",".","p","d","f">>, <<"h","t","t","p",":","/","/","a",".","r","s","/","q",".","p","d","f">>, <<"h","t","t","p",":","/","/","a",".","r","s","/","n",".","p","d","f">>, <<"h","t","t","p",":","/","/","a",".","r","s","/","o",".","p","d","f">> }

\* the <a> elements of the body of an error response
ErrorPage == << A(<<"/">>, <<"H","o","m","e">>) >>

\* the URL as requests sends it: without its fragment
Requested[url \in Str] == BeforeChar[url, "#"]

\* requests can send the request at all: other schemes raise InvalidSchema
HttpScheme(url) == urlparse[url].scheme \in {<<"h","t","t","p">>, <<"h","t","t","p","s">>}

Served(url) == Requested[url] \in DOMAIN Web \cup Docs

\* the <a> elements BeautifulSoup finds in the body of a 2xx response
Anchors(url) ==
  IF Requested[url] \in DOMAIN Web THEN Web[Requested[url]] ELSE <<>>

(***************************************************************************)
(* Bounds of the model                                                     *)
(***************************************************************************)
\* the largest max_depth a configuration file of the model holds
MaxDepth == 2

\* how many requests of one run the network may fail although it serves
\* the resource
MaxFaults == 1

\* the clock of time.time() runs over 0..MaxTime
MaxTime == 1

(***************************************************************************)
(* Helpers of the crawl                                                    *)
(***************************************************************************)
\* str(n) for n >= 0
IntToStr[n \in Nat] ==
  IF n < 10 THEN <<Digits[n + 1]>> ELSE IntToStr[n \div 10] \o <<Digits[(n % 10) + 1]>>

\* os.path.join(a, b) for a relative b
os_path_join[a \in Str, b \in Str] ==
  IF a = <<>> \/ a[Len(a)] = "/" THEN a \o b ELSE a \o <<"/">> \o b

\* filename += '.pdf' unless it ends with '.pdf' in any letter case
ForcePdf[filename \in Str] ==
  IF EndsWith[Lower[filename], <<".","p","d","f">>] THEN filename ELSE filename \o <<".","p","d","f">>

\* the filename scrape_single_page derives from the link text: None is <<>>
TextFilename[link_text \in Str] ==
  IF StripSpace[link_text] = <<>> THEN <<>>
  ELSE ForcePdf[Sanitize[StripSpace[link_text]]]

\* the last path segment scrape_with_navigation names the subfolder after:
\* <<>> when the path has no usable segment
LastPathPart[start_url \in Str] == basename[Strip[urlparse[start_url].path, "/"]]

\* a node that saves into the download root at every depth
RootFolder(start_url, current_depth, t) == download_folder

\* the subfolder of a node; t is the time read when the fallback name is made
Subfolder(start_url, current_depth, t) ==
  IF current_depth > 0
  THEN IF LastPathPart[start_url] # <<>>
       THEN os_path_join[download_folder, Sanitize[LastPathPart[start_url]]]
       ELSE os_path_join[download_folder, <<"p","a","g","e","_">> \o IntToStr[t]]
  ELSE download_folder

\* the node reads time.time() to name its subfolder
ReadsClock(start_url, current_depth) ==
  current_depth > 0 /\ LastPathPart[start_url] = <<>>

\* if current_depth > max_depth: return 0
DepthExceeded(current_depth, max_depth) == current_depth > max_depth

\* a visited test that never answers yes
NeverVisited(start_url, seen) == FALSE

\* if start_url in visited: return 0
AlreadyVisited(start_url, seen) == start_url \in seen

\* a set of visited URLs that stays as it is
VisitedKept(seen, start_url) == seen

\* visited.add(start_url)
VisitedAdd(seen, start_url) == seen \cup {start_url}

\* a depth test that lets the node at the bound go on
BeyondMaxDepth(current_depth, max_depth) == current_depth > max_depth

\* if current_depth >= max_depth: return pdf_count
AtMaxDepth(current_depth, max_depth) == current_depth >= max_depth

\* what scrape_single_page returns from its except clause
ScanErrorResult(pdf_count) == 0

\* what scrape_with_navigation returns from its except clause
NavErrorResult(pdf_count) == 0

\* the headers of a download's response: the Content-Disposition value
\* (<<>> when the header is absent) and the Content-Type value
ResponseHeaders ==
  { [disposition |-> <<>>, type |-> <<"a","p","p","l","i","c","a","t","i","o","n","/","p","d","f">>],
    [disposition |-> <<>>, type |-> <<"t","e","x","t","/","h","t","m","l">>],
    [disposition |-> <<"a","t","t","a","c","h","m","e","n","t",";"," ","f","i","l","e","n","a","m","e","=","\"","d",":","1",".","P","D","F","\"">>, type |-> <<"A","p","p","l","i","c","a","t","i","o","n","/","P","D","F">>] }

\* the text after "filename=" starts a match of "?([^"]+)"?
NameStarts[r \in Str] ==
  \/ Len(r) >= 1 /\ r[1] # "\""
  \/ Len(r) >= 2 /\ r[1] = "\"" /\ r[2] # "\""

\* the 0-based index of the first match of the regular expression in
\* content_disposition, -1 when there is none
DispositionMatch[cd \in Str] ==
  IF \E i \in 0..(Len(cd) - 9) :
       StartsWith[From[cd, i], <<"f","i","l","e","n","a","m","e","=">>] /\ NameStarts[From[cd, i + 9]]
  THEN CHOOSE i \in 0..(Len(cd) - 9) :
         /\ StartsWith[From[cd, i], <<"f","i","l","e","n","a","m","e","=">>] /\ NameStarts[From[cd, i + 9]]
         /\ \A k \in 0..(i - 1) :
              ~(StartsWith[From[cd, k], <<"f","i","l","e","n","a","m","e","=">>] /\ NameStarts[From[cd, k + 9]])
  ELSE -1

\* group(1) of a match whose name part is r: the characters up to the next
\* quote, after an opening quote if there is one
NameGroup[r \in Str] ==
  IF r[1] = "\"" THEN BeforeChar[Tail(r), "\""] ELSE BeforeChar[r, "\""]

\* re.search(r'filename="?([^"]+)"?', content_disposition).group(1); <<>>
\* when there is no match
DispositionFilename[cd \in Str] ==
  IF DispositionMatch[cd] < 0 THEN <<>>
  ELSE NameGroup[From[cd, DispositionMatch[cd] + 9]]

\* filename.replace('%20', ' ')
ReplacePercent20[s \in Str] ==
  IF Len(s) = 0 THEN <<>>
  ELSE IF StartsWith[s, <<"%","2","0">>] THEN <<" ">> \o ReplacePercent20[From[s, 3]]
  ELSE <<Head(s)>> \o ReplacePercent20[Tail(s)]

\* a test that finds every name missing
AlwaysMissing(filename) == TRUE

\* not filename: no name so far (None or '')
NotGiven(filename) == filename = <<>>

\* what a response's headers are
Headers == [disposition : Str, type : Str]

\* the name download_file derives when no filename is passed: from the
\* Content-Disposition header or else the URL, cleaned
CleanName[url \in Str, headers \in Headers] ==
  Sanitize[ReplacePercent20[
    IF headers.disposition # <<>> /\ ~NotGiven(DispositionFilename[headers.disposition])
    THEN DispositionFilename[headers.disposition]
    ELSE basename[urlparse[url].path]]]

\* the derived name, with ".pdf" added when the Content-Type says PDF
DerivedName[clean \in Str, headers \in Headers] ==
  IF Contains[Lower[headers.type], <<"a","p","p","l","i","c","a","t","i","o","n","/","p","d","f">>] /\ ~EndsWith[Lower[clean], <<".","p","d","f">>]
  THEN clean \o <<".","p","d","f">> ELSE clean

\* the name before the fallback: the filename argument (<<>> for None) if
\* given
ChosenName[url \in Str, filename \in Str, headers \in Headers] ==
  IF ~NotGiven(filename) THEN filename ELSE DerivedName[CleanName[url, headers], headers]

\* the name download_file saves under; t is the time read for the fallback
SavedFilename[url \in Str, filename \in Str, headers \in Headers, t \in Nat] ==
  IF ChosenName[url, filename, headers] = <<>>
  THEN <<"d","o","c","u","m","e","n","t","_">> \o IntToStr[t] \o <<".","p","d","f">>
  ELSE ChosenName[url, filename, headers]

\* download_file reads time.time() to name the file
DownloadReadsClock[url \in Str, filename \in Str, headers \in Headers] ==
  ChosenName[url, filename, headers] = <<>>

\* one event of the run
Ev(ev, url, depth, info) == [ev |-> ev, url |-> url, depth |-> depth, info |-> info]

Frame(fn, url, depth, max_depth, folder, pc) ==
  [fn |-> fn, url |-> url, depth |-> depth, max_depth |-> max_depth,
   folder |-> folder, pc |-> pc, pdf_count |-> 0, links |-> <<>>, i |-> 1]

Top == stack[Len(stack)]

Below == SubSeq(stack, 1, Len(stack) - 1)

\* the stack with its top frame replaced
WithTop(f) == Append(Below, f)

\* the stack and the result after the top frame returns value: scrape_
\* single_page returns into the node that called it, a node returns into
\* the loop of its parent, the outermost call into start_scraping
Returned(value) ==
  IF Len(stack) = 1 THEN <<>>
  ELSE LET caller == stack[Len(stack) - 1]
       IN  Append(SubSeq(stack, 1, Len(stack) - 2),
                  IF caller.pc = "scanning"
                  THEN [caller EXCEPT !.pdf_count = value, !.pc = "scanned"]
                  ELSE [caller EXCEPT !.pdf_count = @ + value, !.pc = "loop"])

\* the top frame returns value
Return(value, events) ==
  /\ stack' = Returned(value)
  /\ log' = log \o events
            \o <<Ev("return", Top.url, Top.depth, [fn |-> Top.fn, value |-> value])>>
  /\ IF Len(stack) = 1
     THEN phase' = "done" /\ total' = value
     ELSE UNCHANGED <<phase, total>>

(***************************************************************************)
(* main(): the configurations a run starts from                            *)
(***************************************************************************)
SeedUrls ==
  { <<"h","t","t","p",":","/","/","a",".","r","s","/","a">>, <<"h","t","t","p",":","/","/","a",".","r","s","/","t","/">>, <<"h","t","t","p",":","/","/","a",".","r","s","/","s">>, <<"h","t","t","p",":","/","/","a",".","r","s","/","m">>,
    <<"h","t","t","p",":","/","/","a",".","r","s","/","g">> }

\* the follow patterns the configuration files of the model hold
FollowPatterns == { <<"a",".","r","s">>, <<"l","o","g">>, <<"(">> }

\* the ignore patterns the configuration files of the model hold
IgnorePatterns == { <<"/","o">> }

\* the contents of the configuration files: every key may be absent; the
\* pattern keys appear in navigation files that leave max_depth to its
\* default
ConfigFiles ==
  LET Base == { [base_url |-> u, download_folder |-> <<"o","u","t">>] : u \in SeedUrls }
                \cup { [download_folder |-> <<"o","u","t">>] }
      Simple == Base \cup { c @@ [navigation_mode |-> FALSE] : c \in Base }
      Default == { c @@ [navigation_mode |-> TRUE] : c \in Base }
      Nav == Default
               \cup { c @@ [navigation_mode |-> TRUE, max_depth |-> d] :
                        c \in Base, d \in 0..MaxDepth }
      Follow == { c @@ [follow_pattern |-> p] : c \in Default, p \in FollowPatterns }
      Ignore == { c @@ [ignore_pattern |-> p] : c \in Default, p \in IgnorePatterns }
  IN  Simple \cup Nav \cup Follow \cup Ignore

Init ==
  /\ config = << >>
  /\ base_url = <<>>
  /\ download_folder = <<"d","o","w","n","l","o","a","d","e","d","_","p","d","f","s">>
  /\ phase = "main"
  /\ stack = <<>>
  /\ visited = {}
  /\ total = 0
  /\ now = 0
  /\ faults = 0
  /\ log = <<>>

\* main() with --config, or choice 2: load_config succeeds
load_config(file) ==
  /\ phase = "main"
  /\ config' = file
  /\ base_url' = IF "base_url" \in DOMAIN file THEN file.base_url ELSE <<>>
  /\ download_folder' = IF "download_folder" \in DOMAIN file
                        THEN file.download_folder ELSE <<"d","o","w","n","l","o","a","d","e","d","_","p","d","f","s">>
  /\ phase' = "loaded"
  /\ UNCHANGED <<stack, visited, total, now, faults, log>>

\* load_config fails: main() prints the failure and ends
load_config_fails ==
  /\ phase = "main"
  /\ phase' = "done"
  /\ UNCHANGED <<config, base_url, download_folder, stack, visited, total, now,
                 faults, log>>

\* main() with --url, or choice 3 with a non-empty URL
quick_scrape(url) ==
  /\ phase = "main"
  /\ config' = [base_url |-> url,
                download_folder |-> extract_domain[url] \o <<"_","p","d","f","s">>,
                navigation_mode |-> FALSE]
  /\ base_url' = url
  /\ download_folder' = extract_domain[url] \o <<"_","p","d","f","s">>
  /\ phase' = "loaded"
  /\ UNCHANGED <<stack, visited, total, now, faults, log>>

\* what main() prints when it starts no run
Refusal(by) == Ev("refused", <<>>, 0, [by |-> by])

\* choice 3 with an empty URL: "URL is required for quick scrape."
quick_scrape_refused ==
  /\ phase = "main"
  /\ phase' = "done"
  /\ log' = Append(log, Refusal("quick_scrape"))
  /\ UNCHANGED <<config, base_url, download_folder, stack, visited, total, now, faults>>

\* the depths typed at the prompt of interactive_setup
TypedDepths == {1}

\* choice 1: interactive_setup with a base URL, the default folder, a mode
\* and (in navigation mode) a depth, and no patterns
interactive_setup(url, navigation_mode, max_depth) ==
  /\ phase = "main"
  /\ config' = IF navigation_mode
               THEN [base_url |-> url,
                     download_folder |-> extract_domain[url] \o <<"_","p","d","f","s">>,
                     navigation_mode |-> TRUE, max_depth |-> max_depth]
               ELSE [base_url |-> url,
                     download_folder |-> extract_domain[url] \o <<"_","p","d","f","s">>,
                     navigation_mode |-> FALSE]
  /\ base_url' = url
  /\ download_folder' = extract_domain[url] \o <<"_","p","d","f","s">>
  /\ phase' = "loaded"
  /\ UNCHANGED <<stack, visited, total, now, faults, log>>

\* choice 1 with an empty base URL: "Error: Base URL is required"
interactive_setup_fails ==
  /\ phase = "main"
  /\ phase' = "done"
  /\ log' = Append(log, Refusal("interactive_setup"))
  /\ UNCHANGED <<config, base_url, download_folder, stack, visited, total, now, faults>>

\* start_scraping: the call of scrape_with_navigation() or of
\* scrape_single_page(self.base_url)
start_scraping ==
  /\ phase = "loaded"
  /\ phase' = "running"
  /\ IF config_get("navigation_mode", FALSE)
     THEN /\ stack' = <<Frame("nav", base_url, 0, config_get("max_depth", 2),
                              <<>>, "enter")>>
          /\ log' = log
     ELSE /\ stack' = <<Frame("scan", base_url, 0, 0, download_folder, "fetch")>>
          /\ log' = Append(log, Ev("scan", base_url, 0, [folder |-> download_folder]))
  /\ visited' = {}
  /\ UNCHANGED <<config, base_url, download_folder, total, now, faults>>

(***************************************************************************)
(* scrape_with_navigation                                                  *)
(***************************************************************************)
\* a node that goes on to its links without a scan of its page
SkipScan(node, subfolder) ==
  << [node EXCEPT !.pc = "scanned", !.folder = subfolder] >>

\* pdf_count = self.scrape_single_page(start_url, subfolder): the node waits
\* for the scan of its page
CallScan(node, subfolder) ==
  << [node EXCEPT !.pc = "scanning", !.folder = subfolder],
     Frame("scan", node.url, node.depth, node.max_depth, subfolder, "fetch") >>

\* the entry of a call: the depth test, the visited test, visited.add, the
\* subfolder, and the call of scrape_single_page
nav_enter ==
  /\ phase = "running" /\ Top.fn = "nav" /\ Top.pc = "enter"
  /\ IF DepthExceeded(Top.depth, Top.max_depth) \/ AlreadyVisited(Top.url, visited)
     THEN /\ Return(0, <<>>)
          /\ UNCHANGED <<visited, now>>
     ELSE \E t \in IF ReadsClock(Top.url, Top.depth) THEN now..MaxTime ELSE {now} :
            \E subfolder \in {Subfolder(Top.url, Top.depth, t)} :
                /\ visited' = VisitedAdd(visited, Top.url)
                /\ now' = t
                /\ stack' = Below \o CallScan(Top, subfolder)
                /\ log' = log \o <<Ev("visit", Top.url, Top.depth, [folder |-> subfolder]),
                                   Ev("scan", Top.url, Top.depth, [folder |-> subfolder])>>
                /\ UNCHANGED <<phase, total>>
  /\ UNCHANGED <<config, base_url, download_folder, faults>>

\* after scrape_single_page has returned: the test that ends the node at
\* the depth bound
nav_after_scan ==
  /\ phase = "running" /\ Top.fn = "nav" /\ Top.pc = "scanned"
  /\ IF AtMaxDepth(Top.depth, Top.max_depth)
     THEN Return(Top.pdf_count, <<>>)
     ELSE /\ stack' = WithTop([Top EXCEPT !.pc = "fetch"])
          /\ UNCHANGED <<phase, total, log>>
  /\ UNCHANGED <<config, base_url, download_folder, visited, now, faults>>

\* the second requests.get(start_url) answers 2xx with the page
nav_fetch_ok ==
  /\ phase = "running" /\ Top.fn = "nav" /\ Top.pc = "fetch"
  /\ HttpScheme(Top.url) /\ Served(Top.url)
  /\ stack' = WithTop([Top EXCEPT !.pc = "loop", !.links = Anchors(Top.url), !.i = 1])
  /\ log' = Append(log, Ev("fetch", Top.url, Top.depth, [for |-> "links", result |-> "ok"]))
  /\ UNCHANGED <<config, base_url, download_folder, phase, visited, total, now, faults>>

\* the second requests.get answers with an error status: there is no
\* raise_for_status here, the body of the error response is parsed
nav_fetch_status ==
  /\ phase = "running" /\ Top.fn = "nav" /\ Top.pc = "fetch"
  /\ HttpScheme(Top.url)
  /\ Served(Top.url) => faults < MaxFaults
  /\ faults' = IF Served(Top.url) THEN faults + 1 ELSE faults
  /\ stack' = WithTop([Top EXCEPT !.pc = "loop", !.links = ErrorPage, !.i = 1])
  /\ log' = Append(log, Ev("fetch", Top.url, Top.depth, [for |-> "links", result |-> "status"]))
  /\ UNCHANGED <<config, base_url, download_folder, phase, visited, total, now>>

\* the second requests.get raises (no connection, or a URL requests cannot
\* send): the except clause returns
nav_fetch_raises ==
  /\ phase = "running" /\ Top.fn = "nav" /\ Top.pc = "fetch"
  /\ (HttpScheme(Top.url) /\ Served(Top.url)) => faults < MaxFaults
  /\ faults' = IF HttpScheme(Top.url) /\ Served(Top.url) THEN faults + 1 ELSE faults
  /\ Return(NavErrorResult(Top.pdf_count),
            <<Ev("fetch", Top.url, Top.depth, [for |-> "links", result |-> "raise"])>>)
  /\ UNCHANGED <<config, base_url, download_folder, visited, now>>

\* one iteration of the loop over the links of the node
nav_link ==
  /\ phase = "running" /\ Top.fn = "nav" /\ Top.pc = "loop" /\ Top.i <= Len(Top.links)
  /\ \E link \in {Top.links[Top.i]} :
       IF link.href = <<>>
       THEN /\ stack' = WithTop([Top EXCEPT !.i = @ + 1])
            /\ UNCHANGED <<phase, total, log>>
       ELSE IF urljoin_raises[Top.url, link.href]
       THEN Return(NavErrorResult(Top.pdf_count),
                   <<Ev("error", Top.url, Top.depth, [at |-> Top.i, in |-> "nav"])>>)
       ELSE \E full_url \in {urljoin[Top.url, link.href]} :
            \E decision \in {should_follow_link(full_url, link.text)} :
            \E event \in {Ev("decide", full_url, Top.depth,
                             [page |-> Top.url, at |-> Top.i, text |-> link.text,
                              result |-> decision])} :
              IF decision = "raise"
              THEN Return(NavErrorResult(Top.pdf_count), <<event>>)
              ELSE /\ stack' = IF decision = "True"
                               THEN WithTop([Top EXCEPT !.i = @ + 1, !.pc = "descending"])
                                      \o <<Frame("nav", full_url, Top.depth + 1,
                                                 Top.max_depth, <<>>, "enter")>>
                               ELSE WithTop([Top EXCEPT !.i = @ + 1])
                   /\ log' = Append(log, event)
                   /\ UNCHANGED <<phase, total>>
  /\ UNCHANGED <<config, base_url, download_folder, visited, now, faults>>

\* the loop over the links is over: return pdf_count
nav_done ==
  /\ phase = "running" /\ Top.fn = "nav" /\ Top.pc = "loop" /\ Top.i > Len(Top.links)
  /\ Return(Top.pdf_count, <<>>)
  /\ UNCHANGED <<config, base_url, download_folder, visited, now, faults>>

(***************************************************************************)
(* scrape_single_page and download_file                                    *)
(***************************************************************************)
\* requests.get(url) answers 2xx with the page
scan_fetch_ok ==
  /\ phase = "running" /\ Top.fn = "scan" /\ Top.pc = "fetch"
  /\ HttpScheme(Top.url) /\ Served(Top.url)
  /\ stack' = WithTop([Top EXCEPT !.pc = "loop", !.links = Anchors(Top.url), !.i = 1])
  /\ log' = Append(log, Ev("fetch", Top.url, Top.depth, [for |-> "scan", result |-> "ok"]))
  /\ UNCHANGED <<config, base_url, download_folder, phase, visited, total, now, faults>>

\* requests.get raises, or raise_for_status does: the except clause returns
scan_fetch_fails ==
  /\ phase = "running" /\ Top.fn = "scan" /\ Top.pc = "fetch"
  /\ (HttpScheme(Top.url) /\ Served(Top.url)) => faults < MaxFaults
  /\ faults' = IF HttpScheme(Top.url) /\ Served(Top.url) THEN faults + 1 ELSE faults
  /\ Return(ScanErrorResult(Top.pdf_count),
            <<Ev("fetch", Top.url, Top.depth, [for |-> "scan", result |-> "fail"])>>)
  /\ UNCHANGED <<config, base_url, download_folder, visited, now>>

\* one iteration of the loop over the links of the page, up to the request
\* of download_file
scan_link ==
  /\ phase = "running" /\ Top.fn = "scan" /\ Top.pc = "loop" /\ Top.i <= Len(Top.links)
  /\ \E link \in {Top.links[Top.i]} :
       IF link.href = <<>>
       THEN /\ stack' = WithTop([Top EXCEPT !.i = @ + 1])
            /\ UNCHANGED <<phase, total, log>>
       ELSE IF urljoin_raises[Top.url, link.href]
       THEN Return(ScanErrorResult(Top.pdf_count),
                   <<Ev("error", Top.url, Top.depth, [at |-> Top.i, in |-> "scan"])>>)
       ELSE \E full_url \in {urljoin[Top.url, link.href]} :
              /\ stack' = IF is_pdf_link(full_url, link.text)
                          THEN WithTop([Top EXCEPT !.pc = "download"])
                          ELSE WithTop([Top EXCEPT !.i = @ + 1])
              /\ UNCHANGED <<phase, total, log>>
  /\ UNCHANGED <<config, base_url, download_folder, visited, now, faults>>

\* download_file: the response is 2xx and the file is written; the tally
\* of the page goes up
download_ok ==
  /\ phase = "running" /\ Top.fn = "scan" /\ Top.pc = "download"
  /\ \E full_url \in {urljoin[Top.url, Top.links[Top.i].href]} :
     \E filename \in {TextFilename[Top.links[Top.i].text]} :
       /\ HttpScheme(full_url) /\ Served(full_url)
       /\ \E headers \in ResponseHeaders :
            \E t \in IF DownloadReadsClock[full_url, filename, headers]
                     THEN now..MaxTime ELSE {now} :
              /\ now' = t
              /\ log' = Append(log,
                          Ev("download", full_url, Top.depth,
                             [page |-> Top.url, at |-> Top.i, ok |-> TRUE,
                              folder |-> Top.folder,
                              filename |-> SavedFilename[full_url, filename, headers, t]]))
  /\ stack' = WithTop([Top EXCEPT !.pc = "loop", !.i = @ + 1, !.pdf_count = @ + 1])
  /\ UNCHANGED <<config, base_url, download_folder, phase, visited, total, faults>>

\* download_file: the request or the write fails; download_file returns
\* False and the loop goes on
download_fails ==
  /\ phase = "running" /\ Top.fn = "scan" /\ Top.pc = "download"
  /\ \E full_url \in {urljoin[Top.url, Top.links[Top.i].href]} :
       /\ (HttpScheme(full_url) /\ Served(full_url)) => faults < MaxFaults
       /\ faults' = IF HttpScheme(full_url) /\ Served(full_url) THEN faults + 1 ELSE faults
       /\ log' = Append(log,
                   Ev("download", full_url, Top.depth,
                      [page |-> Top.url, at |-> Top.i, ok |-> FALSE,
                       folder |-> Top.folder, filename |-> <<>>]))
  /\ stack' = WithTop([Top EXCEPT !.pc = "loop", !.i = @ + 1])
  /\ UNCHANGED <<config, base_url, download_folder, phase, visited, total, now>>

\* the loop over the links of the page is over: return pdf_count
scan_done ==
  /\ phase = "running" /\ Top.fn = "scan" /\ Top.pc = "loop" /\ Top.i > Len(Top.links)
  /\ Return(Top.pdf_count, <<>>)
  /\ UNCHANGED <<config, base_url, download_folder, visited, now, faults>>

Next ==
  \/ \E file \in ConfigFiles : load_config(file)
  \/ load_config_fails
  \/ \E url \in SeedUrls : quick_scrape(url)
  \/ quick_scrape_refused
  \/ \E url \in SeedUrls, navigation_mode \in BOOLEAN, max_depth \in TypedDepths :
       interactive_setup(url, navigation_mode, max_depth)
  \/ interactive_setup_fails
  \/ start_scraping
  \/ nav_enter
  \/ nav_after_scan
  \/ nav_fetch_ok
  \/ nav_fetch_status
  \/ nav_fetch_raises
  \/ nav_link
  \/ nav_done
  \/ scan_fetch_ok
  \/ scan_fetch_fails
  \/ scan_link
  \/ download_ok
  \/ download_fails
  \/ scan_done

Spec == Init /\ [][Next]_vars

\* the run is sequential: whatever step is possible is eventually taken
FairSpec == Spec /\ WF_vars(Next)


(***************************************************************************)
(* Single calls of download_file and is_pdf_link on arguments of their     *)
(* own: the second specification.  The call is the one frame of the stack, *)
(* its result is the one event of the log.                                 *)
(***************************************************************************)
DownloadUrls ==
  { <<"h","t","t","p",":","/","/","a",".","r","s","/","d","/","x","%","2","0","y",".","p","d","f">>, <<"h","t","t","p",":","/","/","a",".","r","s","/","P","D","F","/">>, <<"h","t","t","p",":","/","/","a",".","r","s","/","g","e","t","?","i","d","=","1">>,
    <<"h","t","t","p",":","/","/","a",".","r","s","/","a",":","b">> }

\* the filename argument: <<>> is None
SuggestedNames == { <<>>, <<"R","e","p","o","r","t",".","p","d","f">>, <<"M",".","p","d","f">> }

\* the headers of the response, with and without a usable filename
CallHeaders ==
  ResponseHeaders
    \cup { [disposition |-> <<"i","n","l","i","n","e">>, type |-> <<"t","e","x","t","/","h","t","m","l">>],
           [disposition |-> <<"a","t","t","a","c","h","m","e","n","t",";"," ","f","i","l","e","n","a","m","e","=","\"","\"">>, type |-> <<"a","p","p","l","i","c","a","t","i","o","n","/","p","d","f">>],
           [disposition |-> <<"a","t","t","a","c","h","m","e","n","t",";"," ","f","i","l","e","n","a","m","e","=","r","%","2","0","s">>, type |-> <<>>] }

ClassifiedUrls ==
  { <<"h","t","t","p",":","/","/","a",".","r","s","/","x",".","P","D","F","?","v","=","1">>, <<"h","t","t","p",":","/","/","a",".","r","s","/","x",".","P","d","f","#","p">>, <<"h","t","t","p",":","/","/","a",".","r","s","/","d",".","p","d","f">>,
    <<"h","t","t","p",":","/","/","a",".","r","s","/","y",".","p","D","F">>, <<"h","t","t","p",":","/","/","a",".","r","s","/","x">>, <<"h","t","t","p",":","/","/","a",".","r","s","/","d","o","c">> }

\* the text argument: <<>> is None or ''
LinkTexts == { <<>>, <<"R","e","p","o","r","t">>, <<"a",".","P","D","F">>, <<"G","e","t"," ","P","d","f">> }

Calls ==
  { [fn |-> "download_file", url |-> u, filename |-> f, headers |-> h] :
      u \in DownloadUrls, f \in SuggestedNames, h \in CallHeaders }
    \cup { [fn |-> "is_pdf_link", url |-> u, text |-> t] :
             u \in ClassifiedUrls, t \in LinkTexts }

CallInit ==
  /\ config = << >>
  /\ base_url = <<>>
  /\ download_folder = <<"d","o","w","n","l","o","a","d","e","d","_","p","d","f","s">>
  /\ phase = "call"
  /\ stack \in { <<c>> : c \in Calls }
  /\ visited = {}
  /\ total = 0
  /\ now = 0
  /\ faults = 0
  /\ log = <<>>

\* download_file(url, folder, filename) on a response with the headers
call_download_file ==
  /\ phase = "call" /\ Top.fn = "download_file"
  /\ \E t \in IF DownloadReadsClock[Top.url, Top.filename, Top.headers]
              THEN now..MaxTime ELSE {now} :
       /\ now' = t
       /\ log' = <<Ev("named", Top.url, 0,
                      [filename |-> Top.filename, headers |-> Top.headers, t |-> t,
                       saved |-> SavedFilename[Top.url, Top.filename, Top.headers, t]])>>
  /\ phase' = "done"
  /\ stack' = <<>>
  /\ UNCHANGED <<config, base_url, download_folder, visited, total, faults>>

\* is_pdf_link(url, text)
call_is_pdf_link ==
  /\ phase = "call" /\ Top.fn = "is_pdf_link"
  /\ log' = <<Ev("classified", Top.url, 0,
                 [text |-> Top.text, result |-> is_pdf_link(Top.url, Top.text)])>>
  /\ phase' = "done"
  /\ stack' = <<>>
  /\ UNCHANGED <<config, base_url, download_folder, visited, total, now, faults>>

CallNext == call_download_file \/ call_is_pdf_link

CallSpec == CallInit /\ [][CallNext]_vars
(***************************************************************************)
(* What the log of a run says                                              *)
(***************************************************************************)
\* the positions of the events of one kind
EventsOf(ev) == {i \in 1..Len(log) : log[i].ev = ev}

\* the run is a navigation run
NavigationRun == phase # "main" /\ config_get("navigation_mode", FALSE)

\* the run is a simple-mode run
SimpleRun == phase \in {"running", "done"} /\ ~config_get("navigation_mode", FALSE)

\* the depth bound of the run
RunMaxDepth == config_get("max_depth", 2)

\* how often scrape_single_page was called on url
ScanCount(url) == Cardinality({i \in EventsOf("scan") : log[i].url = url})

\* the downloads that succeeded
Succeeded == {i \in EventsOf("download") : log[i].info.ok}

\* C1: in a navigation run every URL is scanned at most once; a URL is in
\* visited, and was put there, before its page is scanned
C1_ScannedAtMostOnce ==
  NavigationRun =>
    /\ \A i, j \in EventsOf("scan") : log[i].url = log[j].url => i = j
    /\ \A i \in EventsOf("scan") :
         /\ log[i].url \in visited
         /\ \E j \in EventsOf("visit") : j < i /\ log[j].url = log[i].url

\* a finished navigation run in which a link to a page visited before was
\* followed: the call returned without scanning
C1_Witness ==
  /\ NavigationRun /\ phase = "done"
  /\ \E i \in EventsOf("decide") : \E j \in EventsOf("visit") :
       j < i /\ log[i].info.result = "True" /\ log[j].url = log[i].url

\* C2: for max_depth = N >= 0 no page is scanned deeper than N, the links
\* of a page at depth N are not fetched and not decided on, and with N = 0
\* only the seed page is scanned
C2_DepthBound ==
  (NavigationRun /\ RunMaxDepth >= 0) =>
    /\ \A i \in EventsOf("scan") : log[i].depth <= RunMaxDepth
    /\ \A i \in EventsOf("fetch") :
         log[i].info.for = "links" => log[i].depth < RunMaxDepth
    /\ \A i \in EventsOf("decide") : log[i].depth < RunMaxDepth
    /\ \A k \in 1..Len(stack) : stack[k].depth <= RunMaxDepth + 1
    /\ RunMaxDepth = 0 =>
         /\ \A i \in EventsOf("scan") : log[i].url = base_url
         /\ Len(stack) <= 2

\* a finished navigation run that scanned a page with links at depth
\* max_depth >= 1
C2_Witness ==
  /\ NavigationRun /\ phase = "done" /\ RunMaxDepth >= 1
  /\ \E i \in EventsOf("fetch") :
       /\ log[i].info.for = "scan" /\ log[i].info.result = "ok"
       /\ log[i].depth = RunMaxDepth
       /\ \E k \in 1..Len(Anchors(log[i].url)) :
            \E a \in {Anchors(log[i].url)[k]} :
              /\ a.href # <<>> /\ ~urljoin_raises[log[i].url, a.href]
              /\ should_follow_link(urljoin[log[i].url, a.href], a.text) = "True"

\* a navigation run over the two-page cycle with max_depth >= 1, no
\* patterns and a network that answered every request, has ended
CycleRunDone ==
  /\ NavigationRun /\ phase = "done"
  /\ base_url = <<"h","t","t","p",":","/","/","a",".","r","s","/","a">>
  /\ RunMaxDepth >= 1
  /\ faults = 0
  /\ ~Configured("follow_pattern") /\ ~Configured("ignore_pattern")

\* C3: every run ends, and on the two-page cycle a -> b -> a each of the
\* two pages is scanned exactly once
C3_Termination ==
  /\ <>(phase = "done")
  /\ [](CycleRunDone =>
          ScanCount(<<"h","t","t","p",":","/","/","a",".","r","s","/","a">>) = 1 /\ ScanCount(<<"h","t","t","p",":","/","/","a",".","r","s","/","b">>) = 1)

\* the run over the cycle with max_depth >= 2 has ended, and b's link back
\* to a was followed
C3_Witness ==
  /\ CycleRunDone /\ RunMaxDepth >= 2
  /\ ScanCount(<<"h","t","t","p",":","/","/","a",".","r","s","/","a">>) = 1 /\ ScanCount(<<"h","t","t","p",":","/","/","a",".","r","s","/","b">>) = 1
  /\ \E i \in EventsOf("decide") :
       log[i].url = <<"h","t","t","p",":","/","/","a",".","r","s","/","a">> /\ log[i].info.result = "True"

\* C4 as claimed: an error while the links of a node are fetched or decided
\* on does not discard what was counted, so the total of a navigation run
\* (here: one in which every href could be resolved) is the number of
\* downloads that succeeded
C4_TotalIsSuccessfulDownloads ==
  (NavigationRun /\ phase = "done" /\ EventsOf("error") = {}) =>
    total = Cardinality(Succeeded)

\* the netloc without a leading "www."
StripWww[netloc \in Str] == IF StartsWith[netloc, <<"w","w","w",".">>] THEN From[netloc, 4] ELSE netloc

\* the link passes the rules of should_follow_link other than the domain
\* rule: not a PDF link, not excluded, accepted by the patterns
PassesOtherRules(url, link_text) ==
  /\ ~is_pdf_link(url, link_text)
  /\ ~MatchesSkipPattern(url)
  /\ Configured("follow_pattern") =>
       ~ReError[config["follow_pattern"]] /\ ~FollowPatternRejects(url, link_text)
  /\ Configured("ignore_pattern") =>
       ~ReError[config["ignore_pattern"]] /\ ~IgnorePatternRejects(url, link_text)

\* C5 as claimed: a link with a host that passes the other rules is
\* followed exactly when its host and the base host are equal once a leading
\* "www." is stripped from both
C5_SameHostModuloWww ==
  \A i \in EventsOf("decide") :
    (PassesOtherRules(log[i].url, log[i].info.text)
       /\ urlparse[log[i].url].netloc # <<>>) =>
      (log[i].info.result = "True"
         <=> StripWww[urlparse[log[i].url].netloc] = StripWww[urlparse[base_url].netloc])

\* C6 as claimed: a simple-mode run scans the seed page alone, fetches no
\* page for its links, saves into the download root, and its total is the
\* number of downloads that succeeded
C6_SimpleModeTotal ==
  SimpleRun =>
    /\ \A i \in EventsOf("scan") : i = 1 /\ log[i].url = base_url
    /\ \A i \in EventsOf("fetch") : log[i].url = base_url /\ log[i].info.for = "scan"
    /\ EventsOf("visit") = {} /\ EventsOf("decide") = {}
    /\ \A i \in EventsOf("download") :
         log[i].info.page = base_url /\ log[i].info.folder = download_folder
    /\ phase = "done" => total = Cardinality(Succeeded)


\* the page was fetched for its scan and answered
ScanFetched(url) ==
  \E i \in EventsOf("fetch") :
    log[i].url = url /\ log[i].info.for = "scan" /\ log[i].info.result = "ok"

\* the page was fetched for its links and answered
LinksFetched(url) ==
  \E i \in EventsOf("fetch") :
    log[i].url = url /\ log[i].info.for = "links" /\ log[i].info.result = "ok"

\* the anchors of the page whose href resolves
Resolvable(url) ==
  {k \in 1..Len(Anchors(url)) :
     Anchors(url)[k].href # <<>> /\ ~urljoin_raises[url, Anchors(url)[k].href]}

\* the URL the k-th anchor of the page resolves to
Target(url, k) == urljoin[url, Anchors(url)[k].href]

\* the anchors of the page after the k-th that pass the follow rules
SiblingsAfter(url, k) ==
  {j \in Resolvable(url) :
     j > k /\ should_follow_link(Target(url, j), Anchors(url)[j].text) = "True"}

\* the downloads that succeeded on the page
SucceededOn(url) == {i \in Succeeded : log[i].info.page = url}

\* the scan of a page below the seed failed at its fetch
FailedChildScans ==
  {f \in EventsOf("fetch") :
     log[f].info.for = "scan" /\ log[f].info.result = "fail" /\ log[f].depth > 0}

\* the decisions that led to the page whose scan failed at event f
DecisionsFor(f) ==
  {d \in EventsOf("decide") :
     /\ d < f /\ log[d].url = log[f].url /\ log[d].info.result = "True"
     /\ LinksFetched(log[d].info.page)}

\* C7 as claimed: after the scan of a page failed at its fetch, every later
\* sibling link of the parent page that passes the follow rules is visited
\* by the end of the run, and the total holds what the siblings downloaded
C7_SiblingsVisitedAndCounted ==
  (NavigationRun /\ phase = "done") =>
    \A f \in FailedChildScans : \A d \in DecisionsFor(f) :
      \A j \in SiblingsAfter(log[d].info.page, log[d].info.at) :
        /\ Target(log[d].info.page, j) \in visited
        /\ total >= Cardinality(SucceededOn(Target(log[d].info.page, j)))

\* the anchors of the page that are classified as PDF links
PdfAnchors(url) ==
  {k \in Resolvable(url) : is_pdf_link(Target(url, k), Anchors(url)[k].text)}

\* the download attempts made for the k-th anchor of the page
Attempts(url, k) ==
  {i \in EventsOf("download") : log[i].info.page = url /\ log[i].info.at = k}

\* C8 as claimed: what a scan returns is the number of its downloads that
\* succeeded, and when the page was fetched every PDF anchor of it got
\* exactly one download attempt
C8_ScanCountsSuccesses ==
  \A r \in EventsOf("return") :
    log[r].info.fn = "scan" =>
      /\ log[r].info.value = Cardinality(SucceededOn(log[r].url))
      /\ ScanFetched(log[r].url) =>
           \A k \in PdfAnchors(log[r].url) : Cardinality(Attempts(log[r].url, k)) = 1

\* the URL holds one of the fixed exclusion patterns in some letter case
ContainsExclusion(url) ==
  \E lower \in {Lower[url]} :
    \E i \in 1..Len(skip_patterns) : Contains[lower, skip_patterns[i]]

\* the configured follow_pattern compiles and matches the URL or the text
FollowPatternMatches(url, link_text) ==
  /\ Configured("follow_pattern")
  /\ ~ReError[config["follow_pattern"]]
  /\ \/ ReSearch[config["follow_pattern"], url, TRUE]
     \/ ReSearch[config["follow_pattern"], link_text, TRUE]

\* C9: should_follow_link answers False for every URL that holds one of
\* the fixed exclusion patterns in any letter case, whatever follow_pattern
\* is configured and whether or not it matches the URL or the link text
C9_ExclusionPrecedence ==
  \A i \in EventsOf("decide") :
    log[i].info.result = "False" \/ ~ContainsExclusion(log[i].url)

\* a link on the base host whose URL holds an exclusion pattern in another
\* letter case and is matched by the configured follow_pattern was decided
\* on, and was not followed
C9_Witness ==
  \E i \in EventsOf("decide") :
    /\ ContainsExclusion(log[i].url)
    /\ \A k \in 1..Len(skip_patterns) : ~Contains[log[i].url, skip_patterns[k]]
    /\ ~is_pdf_link(log[i].url, log[i].info.text)
    /\ FollowPatternMatches(log[i].url, log[i].info.text)
    /\ ~IgnorePatternRejects(log[i].url, log[i].info.text)
    /\ urlparse[log[i].url].netloc = urlparse[base_url].netloc
    /\ log[i].info.result = "False"

\* C10 as claimed: a URL without a host is not followed when the base URL
\* has a host, and no such URL is scanned as a page
C10_NoHostNotFollowed ==
  /\ \A i \in EventsOf("decide") :
       (urlparse[log[i].url].netloc = <<>> /\ urlparse[base_url].netloc # <<>>)
         => log[i].info.result # "True"
  /\ \A i \in EventsOf("scan") :
       (log[i].depth > 0 /\ urlparse[base_url].netloc # <<>>)
         => urlparse[log[i].url].netloc # <<>>

\* C11 as claimed: with an empty base URL no run is started: no scan is
\* started and no page fetch is attempted
C11_NoRunWithoutBaseUrl ==
  base_url = <<>> =>
    /\ phase # "running"
    /\ EventsOf("scan") = {} /\ EventsOf("fetch") = {}

\* the filename the Content-Disposition header of the response gives
HeaderName(headers) ==
  IF headers.disposition = <<>> THEN <<>> ELSE DispositionFilename[headers.disposition]

\* the last path segment of the URL
UrlName(url) == basename[urlparse[url].path]

\* the name made of a source that is not the filename argument: cleaned,
\* with the extension of a PDF response
NameFrom(source, headers) ==
  DerivedName[Sanitize[ReplacePercent20[source]], headers]

\* C12: download_file saves under the filename argument when it is given;
\* otherwise under the name of the Content-Disposition header when there is
\* one; otherwise under the last path segment of the URL; it generates a
\* timestamp name only when all three are empty
C12_FilenameOrder ==
  \A i \in EventsOf("named") :
    /\ log[i].info.filename # <<>> => log[i].info.saved = log[i].info.filename
    /\ (log[i].info.filename = <<>> /\ HeaderName(log[i].info.headers) # <<>>)
         => log[i].info.saved
              = NameFrom(HeaderName(log[i].info.headers), log[i].info.headers)
    /\ (log[i].info.filename = <<>> /\ HeaderName(log[i].info.headers) = <<>>
          /\ UrlName(log[i].url) # <<>>)
         => log[i].info.saved = NameFrom(UrlName(log[i].url), log[i].info.headers)
    /\ log[i].info.saved = <<"d","o","c","u","m","e","n","t","_">> \o IntToStr[log[i].info.t] \o <<".","p","d","f">>
         => /\ log[i].info.filename = <<>>
            /\ HeaderName(log[i].info.headers) = <<>>
            /\ UrlName(log[i].url) = <<>>

\* a download without a filename argument, of a URL with a last path
\* segment, was named after the Content-Disposition header of its response
C12_Witness ==
  \E i \in EventsOf("named") :
    /\ log[i].info.filename = <<>>
    /\ HeaderName(log[i].info.headers) # <<>>
    /\ UrlName(log[i].url) # <<>>
    /\ log[i].info.saved = NameFrom(HeaderName(log[i].info.headers), log[i].info.headers)
    /\ log[i].info.saved # NameFrom(UrlName(log[i].url), log[i].info.headers)

\* C13: is_pdf_link answers True for every URL whose path ends with ".pdf"
\* in any letter case, whatever the link text, an empty or absent one
\* included
C13_PdfPathIsPdfLink ==
  \A i \in EventsOf("classified") :
    EndsWith[Lower[urlparse[log[i].url].path], <<".","p","d","f">>] => log[i].info.result

\* is_pdf_link answered True for a URL with a query after a path that ends
\* with ".PDF", and with no link text
C13_Witness ==
  \E i \in EventsOf("classified") :
    /\ EndsWith[Lower[urlparse[log[i].url].path], <<".","p","d","f">>]
    /\ ~EndsWith[urlparse[log[i].url].path, <<".","p","d","f">>]
    /\ urlparse[log[i].url].query # <<>>
    /\ log[i].info.text = <<>>
    /\ log[i].info.result

\* the URLs the links of the page lead to that pass should_follow_link
Followed(url) ==
  {Target(url, k) : k \in SiblingsAfter(url, 0)}

\* the pages a chain of at most d followed links leads to from the seed
RECURSIVE WithinDepth(_)
WithinDepth(d) ==
  IF d = 0 THEN {base_url}
  ELSE WithinDepth(d - 1) \cup UNION {Followed(u) : u \in WithinDepth(d - 1)}

\* every page fetch of the run was answered, no href failed to resolve and
\* no follow decision raised
CleanRun ==
  /\ \A i \in EventsOf("fetch") : log[i].info.result = "ok"
  /\ EventsOf("error") = {}
  /\ \A i \in EventsOf("decide") : log[i].info.result # "raise"

\* C14 as claimed: a finished navigation run in which every fetch succeeded
\* has scanned every page that a chain of at most max_depth followed links
\* leads to from the seed
C14_ReachableWithinDepthScanned ==
  (NavigationRun /\ phase = "done" /\ RunMaxDepth >= 0 /\ CleanRun) =>
    \A u \in WithinDepth(RunMaxDepth) : ScanCount(u) >= 1

\* the events that belong to the links of a page: the fetch for its links
\* and the decisions on them
LinkEvents(url) ==
  {j \in 1..Len(log) :
     \/ log[j].ev = "decide" /\ log[j].info.page = url
     \/ log[j].ev = "fetch" /\ log[j].url = url /\ log[j].info.for = "links"}

\* the returns of the call of scrape_with_navigation that decision d led to
ReturnsOf(d) ==
  {r \in EventsOf("return") :
     /\ r > d /\ log[r].info.fn = "nav"
     /\ log[r].url = log[d].url /\ log[r].depth = log[d].depth + 1}

\* C15: the page of a node is scanned, with all its download attempts,
\* before its links are fetched or decided on; and once a link is followed,
\* nothing happens at the depth of its page or above until the call on the
\* linked page has returned
C15_DepthFirstOrder ==
  /\ \A i \in EventsOf("download") : \A j \in LinkEvents(log[i].info.page) : i < j
  /\ \A j \in EventsOf("decide") :
       \E r \in EventsOf("return") :
         r < j /\ log[r].info.fn = "scan" /\ log[r].url = log[j].info.page
  /\ \A d \in EventsOf("decide") :
       log[d].info.result = "True" =>
         \A e \in (d + 1)..Len(log) :
           log[e].depth <= log[d].depth => \E r \in ReturnsOf(d) : r < e

\* a page with a download of its own had two of its links followed, and a
\* page was scanned and a file downloaded under the first of them before
\* the second was decided on
C15_Witness ==
  \E d1, d2 \in EventsOf("decide") :
    /\ d1 < d2 /\ log[d1].info.page = log[d2].info.page
    /\ log[d1].info.result = "True" /\ log[d2].info.result = "True"
    /\ \E i \in EventsOf("download") : i < d1 /\ log[i].info.page = log[d1].info.page
    /\ \E i \in EventsOf("download") :
         d1 < i /\ i < d2 /\ log[i].info.ok /\ log[i].depth > log[d1].depth

\* the downloads of the URL that succeeded
SucceededFor(url) == {i \in Succeeded : log[i].url = url}

\* C16 as claimed: no downloaded URL enters visited; a PDF URL that is
\* linked twice on a page gets one download attempt per anchor; and when a
\* PDF URL was downloaded more than once, the total of the finished run
\* holds each of these downloads
C16_DuplicatesDownloadedAndCounted ==
  /\ \A i \in EventsOf("download") : log[i].url \notin visited
  /\ \A r \in EventsOf("return") :
       (log[r].info.fn = "scan" /\ ScanFetched(log[r].url)) =>
         \A k, k2 \in PdfAnchors(log[r].url) :
           (k # k2 /\ Target(log[r].url, k) = Target(log[r].url, k2))
             => Cardinality(Attempts(log[r].url, k)) = 1
  /\ phase = "done" =>
       \A i \in Succeeded :
         Cardinality(SucceededFor(log[i].url)) >= 2
           => total >= Cardinality(SucceededFor(log[i].url))

\* the decisions that let the URL into the traversal
Admissions(url) ==
  {d \in EventsOf("decide") : log[d].url = url /\ log[d].info.result = "True"}

\* C17 as claimed: every URL in visited other than the seed was let in by
\* should_follow_link, is not a PDF link, matches no exclusion pattern,
\* satisfies the configured patterns and has the host of the base URL; and
\* no page scanned below the seed is a PDF link or on another host
C17_VisitedInScope ==
  NavigationRun =>
    /\ \A u \in visited \ {base_url} :
         /\ Admissions(u) # {}
         /\ \A d \in Admissions(u) :
              /\ ~is_pdf_link(u, log[d].info.text)
              /\ ~MatchesSkipPattern(u)
              /\ ~FollowPatternRejects(u, log[d].info.text)
              /\ ~IgnorePatternRejects(u, log[d].info.text)
         /\ urlparse[u].netloc = urlparse[base_url].netloc
    /\ \A i \in EventsOf("scan") :
         log[i].depth > 0 =>
           /\ ~UrlContainsPdf(log[i].url)
           /\ urlparse[log[i].url].netloc = urlparse[base_url].netloc

\* the path segments of the URL that are not empty
NonEmptySegments(url) ==
  SelectSeq(Split[urlparse[url].path, "/"], LAMBDA part : part # <<>>)

\* the folder named after the last of the segments, sanitized
SegmentFolder(segments) ==
  os_path_join[download_folder, Sanitize[segments[Len(segments)]]]

\* the folders named after a time of the clock
TimestampFolders ==
  {os_path_join[download_folder, <<"p","a","g","e","_">> \o IntToStr[t]] : t \in 0..MaxTime}

\* C18: the page at depth 0 is scanned into the download root; a page at a
\* depth above 0 is scanned into the folder of the download root that is
\* named after the sanitized last non-empty segment of its path, or after
\* a timestamp when the path has none; and every file is saved into the
\* folder its page was scanned into
C18_NodeFolder ==
  /\ \A i \in EventsOf("scan") :
       IF log[i].depth = 0 THEN log[i].info.folder = download_folder
       ELSE \E segments \in {NonEmptySegments(log[i].url)} :
              IF segments # <<>>
              THEN log[i].info.folder = SegmentFolder(segments)
              ELSE log[i].info.folder \in TimestampFolders
  /\ \A i \in EventsOf("download") :
       \E s \in EventsOf("scan") :
         /\ s < i /\ log[s].url = log[i].info.page /\ log[s].depth = log[i].depth
         /\ log[s].info.folder = log[i].info.folder

\* a file of a page below the seed was saved into the folder named after
\* the last segment of the page's path, which is not the download root
C18_Witness ==
  \E i \in Succeeded :
    /\ log[i].depth > 0
    /\ log[i].info.folder # download_folder
    /\ \E segments \in {NonEmptySegments(log[i].info.page)} :
         segments # <<>> /\ log[i].info.folder = SegmentFolder(segments)

\* the path of the file a successful download was written to
FilePath(i) == os_path_join[log[i].info.folder, log[i].info.filename]

\* C19 as claimed: no two successful downloads of a run are written to the
\* same path, and the finished run has written as many files as it counts
C19_NoOverwrite ==
  /\ \A i, j \in Succeeded : i # j => FilePath(i) # FilePath(j)
  /\ phase = "done" => Cardinality({FilePath(i) : i \in Succeeded}) = total
=============================================================================
